---- MODULE Spec2Model ----
(***************************************************************************)
(* Model of search_replace.py: the DocxRedactor session (open, save,       *)
(* get_all_colors, get_highlights, redact), the archive rewrite            *)
(* update_zip, and the interactive redact_menu loop.                       *)
(*                                                                         *)
(* An element tree is a record of four sequences indexed by element        *)
(* identity (the position of the element in the parsed document): tag,     *)
(* val (the w:val attribute), text and kids (the ordered child list).      *)
(* The bytes of an XML part are the preorder list of its elements with     *)
(* their depth, plus a flag for the XML declaration that a word processor  *)
(* writes and ET.tostring does not.  getiterator is read as iter, which    *)
(* is what it was an alias of in the interpreters that still had it.       *)
(***************************************************************************)
EXTENDS Integers, Sequences, FiniteSets, TLC

VARIABLES disk, is_open, path, doc_info, root, parent_map,
          lastOp, lastResult, ret, printed, pc, zargs, orig, cmds

vars == <<disk, is_open, path, doc_info, root, parent_map,
          lastOp, lastResult, ret, printed, pc, zargs, orig, cmds>>

session == <<is_open, path, doc_info, root, parent_map>>

\* ---------------------------------------------------------------- bounds
MaxBlocks == 2
MaxEntries == 2
MaxCmds == 3
MaxRuns == 1

\* ------------------------------------------------------------- constants
None == [none |-> TRUE]
NoAttr == "(no w:val)"
NoText == "(no text)"
NoColor == "(color=None)"
Colors == {"green", "yellow"}
Replacements == {"[REDACTED]"}
DOC == "word/document.xml"

\* ------------------------------------------------------------ sequences
RECURSIVE Flatten(_)
Flatten(ss) == IF ss = <<>> THEN <<>> ELSE Head(ss) \o Flatten(Tail(ss))

RECURSIVE SortedSeq(_)
SortedSeq(S) ==
  IF S = {} THEN <<>>
  ELSE LET m == CHOOSE x \in S : \A y \in S : x <= y
       IN <<m>> \o SortedSeq(S \ {m})

Range(s) == {s[i] : i \in DOMAIN s}

\* -------------------------------------------------------- the XML codec
El(t, d, v, x) == [tag |-> t, depth |-> d, val |-> v, text |-> x]

\* ET.fromstring: the element tree of a well-formed part.
fromstring(bytes) ==
  LET ns == bytes.nodes
      n == Len(ns)
      ChildSet(i) == {j \in (i + 1)..n :
                        /\ ns[j].depth = ns[i].depth + 1
                        /\ \A k \in (i + 1)..(j - 1) : ns[k].depth > ns[i].depth}
  IN [tag  |-> [i \in 1..n |-> ns[i].tag],
      val  |-> [i \in 1..n |-> ns[i].val],
      text |-> [i \in 1..n |-> ns[i].text],
      kids |-> [i \in 1..n |-> SortedSeq(ChildSet(i))]]

\* Element.iter(): the element and its descendants in document order.
RECURSIVE iter(_, _)
iter(tree, e) ==
  <<e>> \o Flatten([k \in DOMAIN tree.kids[e] |-> iter(tree, tree.kids[e][k])])

\* Element.iter(tag)
iterTag(tree, e, t) == SelectSeq(iter(tree, e), LAMBDA x : tree.tag[x] = t)

RECURSIVE Emit(_, _, _)
Emit(tree, e, d) ==
  <<El(tree.tag[e], d, tree.val[e], tree.text[e])>>
    \o Flatten([k \in DOMAIN tree.kids[e] |-> Emit(tree, tree.kids[e][k], d + 1)])

\* ET.tostring: the elements reachable from the root; no XML declaration.
tostring(tree) == [decl |-> FALSE, nodes |-> Emit(tree, 1, 0)]

\* dict((c, p) for p in root.iter() for c in p)
ParentMap(tree) ==
  LET all == Range(iter(tree, 1))
      children == {c \in all : \E p \in all : c \in Range(tree.kids[p])}
  IN [c \in children |-> CHOOSE p \in all : c \in Range(tree.kids[p])]

\* ------------------------------------------------------------ documents
\* The building blocks of the document bodies the model opens; each is the
\* preorder element list of one child of w:body.
Secret(c) == IF c = "yellow" THEN "secret1" ELSE "secret2"

\* a highlighted run: w:r[w:rPr[w:highlight], w:t]
RunBlock(c) ==
  << El("w:r", 2, NoAttr, NoText), El("w:rPr", 3, NoAttr, NoText),
     El("w:highlight", 4, c, NoText), El("w:t", 3, NoAttr, Secret(c)) >>

\* a paragraph whose paragraph mark is highlighted c and whose run is
\* highlighted d: w:p[w:pPr[w:rPr[w:highlight c]], w:r[w:rPr[w:highlight d], w:t]]
ParaBlock(c, d) ==
  << El("w:p", 2, NoAttr, NoText), El("w:pPr", 3, NoAttr, NoText),
     El("w:rPr", 4, NoAttr, NoText), El("w:highlight", 5, c, NoText),
     El("w:r", 3, NoAttr, NoText), El("w:rPr", 4, NoAttr, NoText),
     El("w:highlight", 5, d, NoText), El("w:t", 4, NoAttr, Secret(d)) >>

\* a highlight with no run or paragraph above it
OrphanBlock(c) == << El("w:highlight", 2, c, NoText) >>

\* a run with a tracked formatting change:
\* w:r[w:rPr[w:highlight, w:rPrChange[w:rPr]], w:t]
TrackedBlock(c) ==
  << El("w:r", 2, NoAttr, NoText), El("w:rPr", 3, NoAttr, NoText),
     El("w:highlight", 4, c, NoText), El("w:rPrChange", 4, NoAttr, NoText),
     El("w:rPr", 5, NoAttr, NoText), El("w:t", 3, NoAttr, Secret(c)) >>

\* a run whose highlight has no w:val attribute
NoValBlock == RunBlock(NoAttr)

RunBlocks == {RunBlock(c) : c \in Colors}

Blocks ==
  RunBlocks
    \cup {ParaBlock("yellow", d) : d \in Colors}
    \cup {OrphanBlock("yellow"), TrackedBlock("yellow"), NoValBlock}

BlockSeqs(B, n) == UNION {[1..k -> B] : k \in 0..n}

Body(bs) ==
  << El("w:document", 0, NoAttr, NoText), El("w:body", 1, NoAttr, NoText) >>
    \o Flatten(bs)

\* the bytes of a document part as a word processor writes it: the XML
\* declaration, then the body
DocBytes(B, n) == {[decl |-> TRUE, nodes |-> Body(bs)] : bs \in BlockSeqs(B, n)}

\* a part that is not well-formed XML
Garbage == [decl |-> FALSE, nodes |-> <<>>]
WellFormed(bytes) == bytes.nodes # <<>>

\* the bytes of a part the redactor never parses
Blob(x) == [decl |-> FALSE, nodes |-> <<El(x, 0, NoAttr, NoText)>>]

\* ------------------------------------------------------------- archives
NoFile == [exists |-> FALSE]
EmptyFile == [exists |-> TRUE, zip |-> FALSE]
Zip(es, c) == [exists |-> TRUE, zip |-> TRUE, entries |-> es, comment |-> c]
IsZip(f) == f.exists /\ f.zip

Entry(n, m, d) == [name |-> n, meta |-> m, data |-> d]

\* ZipInfo of an entry: its name and its compression metadata
ZipInfo(e) == [filename |-> e.name, meta |-> e.meta]

Names(z) == {z.entries[i].name : i \in DOMAIN z.entries}

\* ZipFile.getinfo(name); the archives of the model have unique names
getinfo(z, n) ==
  LET i == CHOOSE k \in DOMAIN z.entries : z.entries[k].name = n
  IN z.entries[i]

\* writestr given the entry name alone: the entry loses its metadata
writestr_by_name(z, zinfo, data) ==
  Zip(Append(z.entries, Entry(zinfo.filename, "stored", data)), z.comment)

\* ZipFile.writestr(zinfo, data): one more entry at the end
writestr(z, zinfo, data) ==
  Zip(Append(z.entries, Entry(zinfo.filename, zinfo.meta, data)), z.comment)

\* ------------------------------------------------------- update_zip steps
\* tempfile.mkstemp(dir=os.path.dirname(zipname)); os.close
TMP == "tmp"
mkstemp(d) == [d EXCEPT ![TMP] = EmptyFile]

\* the copy loop without its filename test
CopyWithout_unfiltered(z_in, zip_info) == Zip(z_in.entries, z_in.comment)

\* the temp copy of the archive without the entry named zip_info.filename
CopyWithout(z_in, zip_info) ==
  Zip(SelectSeq(z_in.entries, LAMBDA item : item.name # zip_info.filename),
      z_in.comment)

copy(d, zipname, zip_info) == [d EXCEPT ![TMP] = CopyWithout(d[zipname], zip_info)]

\* os.remove(zipname)
remove(d, zipname) == [d EXCEPT ![zipname] = NoFile]

\* os.rename(tmp_name, zipname)
rename(d, zipname) == [d EXCEPT ![zipname] = d[TMP], ![TMP] = NoFile]

\* ZF.ZipFile(zipname, mode='a').writestr(zip_info, data)
append(d, zipname, zip_info, data) ==
  [d EXCEPT ![zipname] = writestr(d[zipname], zip_info, data)]

\* update_zip run to completion
update_zip(d, zipname, zip_info, data) ==
  append(rename(remove(copy(mkstemp(d), zipname, zip_info), zipname), zipname),
         zipname, zip_info, data)

\* --------------------------------------------------- DocxRedactor queries
\* get_highlights answering an unopened session with no highlights
get_highlights_unopened_empty(tree, color) ==
  IF tree = None THEN [err |-> "ok", val |-> <<>>]
  ELSE LET highlights == iterTag(tree, 1, "w:highlight")
       IN IF color = NoColor THEN [err |-> "ok", val |-> highlights]
          ELSE IF \E i \in DOMAIN highlights : tree.val[highlights[i]] = NoAttr
               THEN [err |-> "KeyError", val |-> <<>>]
               ELSE [err |-> "ok",
                     val |-> SelectSeq(highlights, LAMBDA h : tree.val[h] = color)]

\* get_highlights(color): the highlights in document order, or KeyError when
\* a highlight that the filter reads has no w:val
get_highlights(tree, color) ==
  LET highlights == iterTag(tree, 1, "w:highlight")
  IN IF tree = None THEN [err |-> "AttributeError", val |-> <<>>]
     ELSE IF color = NoColor THEN [err |-> "ok", val |-> highlights]
     ELSE IF \E i \in DOMAIN highlights : tree.val[highlights[i]] = NoAttr
          THEN [err |-> "KeyError", val |-> <<>>]
          ELSE [err |-> "ok",
                val |-> SelectSeq(highlights, LAMBDA h : tree.val[h] = color)]

\* sorted(): ascending lexicographic order of the colour tokens
Rank(c) == IF c = "green" THEN 1 ELSE 2
SortColors(S) ==
  LET ranks == SortedSeq({Rank(c) : c \in S})
  IN [i \in DOMAIN ranks |-> CHOOSE c \in S : Rank(c) = ranks[i]]

get_all_colors(tree) ==
  LET highlights == get_highlights(tree, NoColor).val
  IN IF \E i \in DOMAIN highlights : tree.val[highlights[i]] = NoAttr
     THEN [err |-> "KeyError", val |-> <<>>]
     ELSE [err |-> "ok",
           val |-> SortColors({tree.val[highlights[i]] : i \in DOMAIN highlights})]

IsContainer(tree, e) == tree.tag[e] = "w:r" \/ tree.tag[e] = "w:p"

\* get_run_or_paragraph_for_highlight: the walk up parent_map; None on KeyError
RECURSIVE get_run_or_paragraph_for_highlight(_, _, _)
get_run_or_paragraph_for_highlight(tree, pm, elem) ==
  IF elem \notin DOMAIN pm THEN 0
  ELSE IF IsContainer(tree, pm[elem]) THEN pm[elem]
       ELSE get_run_or_paragraph_for_highlight(tree, pm, pm[elem])

\* ------------------------------------------------------------- redaction
RemoveAt(s, x) == SelectSeq(s, LAMBDA y : y # x)

\* for x in xs: elem.remove(x); ValueError at the first x that is no child
RECURSIVE RemoveEach(_, _, _)
RemoveEach(tree, elem, xs) ==
  IF xs = <<>> THEN [tree |-> tree, err |-> "ok"]
  ELSE IF Head(xs) \notin Range(tree.kids[elem])
       THEN [tree |-> tree, err |-> "ValueError"]
       ELSE RemoveEach([tree EXCEPT !.kids[elem] = RemoveAt(@, Head(xs))],
                       elem, Tail(xs))

\* the text loop over the direct w:t children only (findall for iter)
SetTexts_children(tree, elem, text) ==
  LET ts == {k \in Range(tree.kids[elem]) : tree.tag[k] = "w:t"}
  IN [tree EXCEPT !.text = [e \in DOMAIN @ |-> IF e \in ts THEN text ELSE @[e]]]

\* for text_node in elem.iter('w:t'): text_node.text = text
SetTexts(tree, elem, text) ==
  LET ts == Range(iterTag(tree, elem, "w:t"))
  IN [tree EXCEPT !.text = [e \in DOMAIN @ |-> IF e \in ts THEN text ELSE @[e]]]

replace_text_in_run_or_paragraph(tree, elem, text) ==
  LET props == IF tree.tag[elem] = "w:r" THEN iterTag(tree, elem, "w:rPr")
               ELSE IF tree.tag[elem] = "w:p" THEN iterTag(tree, elem, "w:pPr")
               ELSE <<>>
      stripped == RemoveEach(tree, elem, props)
  IN IF stripped.err # "ok" THEN stripped
     ELSE [tree |-> SetTexts(stripped.tree, elem, text), err |-> "ok"]

\* the loop of redact over the highlights found; printed counts the
\* 'Failed to successfully redact a highlight' lines
RECURSIVE RedactLoop(_, _, _, _, _)
RedactLoop(tree, pm, hls, text, n) ==
  IF hls = <<>> THEN [tree |-> tree, err |-> "ok", printed |-> n]
  ELSE LET run == get_run_or_paragraph_for_highlight(tree, pm, Head(hls))
       IN IF run = 0 THEN RedactLoop(tree, pm, Tail(hls), text, n + 1)
          ELSE LET r == replace_text_in_run_or_paragraph(tree, run, text)
               IN IF r.err # "ok"
                  THEN [tree |-> r.tree, err |-> r.err, printed |-> n]
                  ELSE RedactLoop(r.tree, pm, Tail(hls), text, n)

redact(tree, pm, color, text) ==
  LET hls == get_highlights(tree, color)
  IN IF hls.err # "ok" THEN [tree |-> tree, err |-> hls.err, printed |-> 0]
     ELSE RedactLoop(tree, pm, hls.val, text, 0)

\* ------------------------------------------------------------ the session
Call(op, a, b) == [op |-> op, a |-> a, b |-> b]

\* check_open
check_open(open) == IF ~open THEN "Exception" ELSE "ok"

Files == {"a.docx", "b.docx", "missing.docx"}

\* DocxRedactor.open(file_path), on the session fields given
OpenOn(d, file_path, s) ==
  IF ~d[file_path].exists
  THEN [err |-> "Exception", s |-> s]
  ELSE IF ~IsZip(d[file_path])
  THEN [err |-> "BadZipFile", s |-> [s EXCEPT !.path = file_path]]
  ELSE IF DOC \notin Names(d[file_path])
  THEN [err |-> "KeyError", s |-> [s EXCEPT !.path = file_path]]
  ELSE LET e == getinfo(d[file_path], DOC)
       IN IF ~WellFormed(e.data)
          THEN [err |-> "ParseError",
                s |-> [s EXCEPT !.path = file_path, !.doc_info = ZipInfo(e)]]
          ELSE [err |-> "ok",
                s |-> [is_open |-> TRUE, path |-> file_path,
                       doc_info |-> ZipInfo(e), root |-> fromstring(e.data),
                       parent_map |-> ParentMap(fromstring(e.data))]]

\* DocxRedactor.__init__
NewSession ==
  [is_open |-> FALSE, path |-> "None", doc_info |-> None, root |-> None,
   parent_map |-> None]

Session ==
  [is_open |-> is_open, path |-> path, doc_info |-> doc_info, root |-> root,
   parent_map |-> parent_map]

SetSession(s) ==
  /\ is_open' = s.is_open
  /\ path' = s.path
  /\ doc_info' = s.doc_info
  /\ root' = s.root
  /\ parent_map' = s.parent_map

\* DocxRedactor.save on the session fields given: the disk afterwards
SaveOn(d, s) ==
  IF check_open(s.is_open) # "ok" THEN [err |-> "Exception", disk |-> d]
  ELSE IF s.root = None THEN [err |-> "AttributeError", disk |-> d]
  ELSE IF ~IsZip(d[s.path]) THEN [err |-> "BadZipFile", disk |-> mkstemp(d)]
  ELSE [err |-> "ok", disk |-> update_zip(d, s.path, s.doc_info, tostring(s.root))]

\* DocxRedactor.redact on the session fields given
RedactOn(s, color, text) ==
  IF check_open(s.is_open) # "ok"
  THEN [tree |-> s.root, err |-> "Exception", printed |-> 0]
  ELSE redact(s.root, s.parent_map, color, text)

Open(file_path) ==
  LET r == OpenOn(disk, file_path, Session)
  IN /\ pc = "idle"
     /\ SetSession(r.s)
     /\ lastOp' = Call("open", file_path, "")
     /\ lastResult' = r.err
     /\ ret' = <<>>
     /\ printed' = 0
     /\ UNCHANGED <<disk, pc, zargs, orig, cmds>>

Save ==
  LET r == SaveOn(disk, Session)
  IN /\ pc = "idle"
     /\ disk' = r.disk
     /\ lastOp' = Call("save", "", "")
     /\ lastResult' = r.err
     /\ ret' = <<>>
     /\ printed' = 0
     /\ UNCHANGED <<is_open, path, doc_info, root, parent_map, pc, zargs, orig, cmds>>

Redact(color, text) ==
  LET r == RedactOn(Session, color, text)
  IN /\ pc = "idle"
     /\ root' = r.tree
     /\ lastOp' = Call("redact", color, text)
     /\ lastResult' = r.err
     /\ ret' = <<>>
     /\ printed' = r.printed
     /\ UNCHANGED <<disk, is_open, path, doc_info, parent_map, pc, zargs, orig, cmds>>

GetAllColors ==
  LET r == IF check_open(is_open) # "ok" THEN [err |-> "Exception", val |-> <<>>]
           ELSE get_all_colors(root)
  IN /\ pc = "idle"
     /\ lastOp' = Call("get_all_colors", "", "")
     /\ lastResult' = r.err
     /\ ret' = r.val
     /\ printed' = 0
     /\ UNCHANGED <<disk, is_open, path, doc_info, root, parent_map, pc, zargs, orig, cmds>>

GetHighlights(color) ==
  LET r == get_highlights(root, color)
  IN /\ pc = "idle"
     /\ lastOp' = Call("get_highlights", color, "")
     /\ lastResult' = r.err
     /\ ret' = r.val
     /\ printed' = 0
     /\ UNCHANGED <<disk, is_open, path, doc_info, root, parent_map, pc, zargs, orig, cmds>>

\* ------------------------------------------------------- initial archives
OtherParts ==
  << Entry("[Content_Types].xml", "deflated", Blob("types")),
     Entry("word/styles.xml", "stored", Blob("styles")),
     Entry("docProps/app.xml", "deflated", Blob("app")) >>

\* the first k other parts with the document part put before position i
WithDoc(k, i, e) ==
  SubSeq(OtherParts, 1, i - 1) \o <<e>> \o SubSeq(OtherParts, i, k)

Places == {ki \in (0..MaxEntries) \X (1..(MaxEntries + 1)) : ki[2] <= ki[1] + 1}

Archives(docs) ==
  {Zip(WithDoc(ki[1], ki[2], Entry(DOC, "deflated", b)), "a comment") :
     ki \in Places, b \in docs}

OtherDocx ==
  { Zip(<<OtherParts[1]>>, ""),
    Zip(<<OtherParts[1], Entry(DOC, "deflated", Garbage)>>, ""),
    Zip(<<Entry(DOC, "stored", [decl |-> TRUE, nodes |-> Body(<<RunBlock("green")>>)]),
          OtherParts[2]>>, "other") }

InitDisk(A, B) ==
  disk \in {[f \in Files \cup {TMP} |->
               IF f = "a.docx" THEN a ELSE IF f = "b.docx" THEN b ELSE NoFile] :
            a \in A, b \in B}

InitIdle ==
  /\ lastOp = Call("__init__", "", "")
  /\ lastResult = "ok"
  /\ ret = <<>>
  /\ printed = 0
  /\ pc = "idle"
  /\ zargs = None
  /\ orig = None
  /\ cmds = <<>>

InitNew ==
  /\ is_open = FALSE
  /\ path = "None"
  /\ doc_info = None
  /\ root = None
  /\ parent_map = None

\* ------------------------------------------- Spec: one session, two files
Init ==
  /\ InitDisk(Archives(DocBytes(RunBlocks, MaxRuns)), OtherDocx)
  /\ InitNew
  /\ InitIdle

Next ==
  \/ \E f \in Files : Open(f)
  \/ Save
  \/ \E c \in Colors, t \in Replacements : Redact(c, t)
  \/ GetAllColors
  \/ \E c \in {"yellow", NoColor} : GetHighlights(c)

Spec == Init /\ [][Next]_vars

\* ---------------------------- SpecRedact: redaction over document shapes
InitRedact ==
  /\ InitDisk({Zip(<<Entry(DOC, "deflated", b)>>, "") :
                 b \in DocBytes(Blocks, MaxBlocks)}, {NoFile})
  /\ InitNew
  /\ InitIdle

NextRedact ==
  \/ Open("a.docx")
  \/ \E c \in Colors, t \in Replacements : Redact(c, t)

SpecRedact == InitRedact /\ [][NextRedact]_vars

\* ------------------- SpecZip: save with update_zip taken one call at a time
\* save(): check_open, ET.tostring, and the call of update_zip
SaveBegin ==
  /\ pc = "idle"
  /\ check_open(is_open) = "ok"
  /\ IsZip(disk[path])
  /\ pc' = "called"
  /\ zargs' = [zipname |-> path, zip_info |-> doc_info, data |-> tostring(root)]
  /\ orig' = disk[path]
  /\ lastOp' = Call("save", "", "")
  /\ lastResult' = "running"
  /\ ret' = <<>>
  /\ printed' = 0
  /\ UNCHANGED <<disk, is_open, path, doc_info, root, parent_map, cmds>>

ZStep(from, to, d) ==
  /\ pc = from
  /\ lastResult = "running"
  /\ pc' = to
  /\ disk' = d
  /\ UNCHANGED <<is_open, path, doc_info, root, parent_map, lastOp, lastResult,
                 ret, printed, zargs, orig, cmds>>

ZMkstemp == ZStep("called", "tmp_made", mkstemp(disk))

ZCopy == ZStep("tmp_made", "copied", copy(disk, zargs.zipname, zargs.zip_info))

ZRemove == ZStep("copied", "removed", remove(disk, zargs.zipname))

ZRename == ZStep("removed", "renamed", rename(disk, zargs.zipname))

ZAppend ==
  /\ pc = "renamed"
  /\ lastResult = "running"
  /\ pc' = "idle"
  /\ disk' = append(disk, zargs.zipname, zargs.zip_info, zargs.data)
  /\ lastResult' = "ok"
  /\ UNCHANGED <<is_open, path, doc_info, root, parent_map, lastOp, ret, printed,
                 zargs, orig, cmds>>

\* the process stops inside update_zip, between two of its calls
Stop ==
  /\ pc # "idle"
  /\ lastResult = "running"
  /\ lastResult' = "stopped"
  /\ UNCHANGED <<disk, is_open, path, doc_info, root, parent_map, lastOp, ret,
                 printed, pc, zargs, orig, cmds>>

InitZip ==
  /\ InitDisk(Archives(DocBytes(RunBlocks, MaxRuns)), {NoFile})
  /\ InitNew
  /\ InitIdle

NextZip ==
  \/ Open("a.docx")
  \/ \E c \in Colors, t \in Replacements : Redact(c, t)
  \/ SaveBegin
  \/ ZMkstemp
  \/ ZCopy
  \/ ZRemove
  \/ ZRename
  \/ ZAppend
  \/ Stop

SpecZip == InitZip /\ [][NextZip]_vars

\* ------------------------------------------ SpecMenu: the redact_menu loop
FilePath == "a.docx"

\* redact_menu(file_path) called again: a new DocxRedactor, opened on the file
Reenter(d, cmd) ==
  LET r == OpenOn(d, FilePath, NewSession)
  IN /\ SetSession(r.s)
     /\ disk' = d
     /\ pc' = IF r.err = "ok" THEN "menu" ELSE "crashed"
     /\ lastResult' = r.err
     /\ lastOp' = cmd
     /\ cmds' = Append(cmds, cmd)
     /\ UNCHANGED <<zargs, orig>>

\* an exception leaves redact_menu through every frame
Crash(tree, err, cmd) ==
  /\ pc' = "crashed"
  /\ root' = tree
  /\ lastResult' = err
  /\ lastOp' = cmd
  /\ cmds' = Append(cmds, cmd)
  /\ UNCHANGED <<disk, is_open, path, doc_info, parent_map, zargs, orig>>

AtPrompt == pc = "menu" /\ Len(cmds) < MaxCmds

MenuList ==
  LET r == get_all_colors(root)
  IN /\ AtPrompt
     /\ ret' = r.val
     /\ printed' = 0
     /\ IF r.err = "ok" THEN Reenter(disk, Call("l", "", ""))
        ELSE Crash(root, r.err, Call("l", "", ""))

MenuRedact(color, replacement) ==
  LET r == RedactOn(Session, color, replacement)
  IN /\ AtPrompt
     /\ ret' = <<>>
     /\ printed' = r.printed
     /\ IF r.err = "ok" THEN Reenter(disk, Call("r", color, replacement))
        ELSE Crash(r.tree, r.err, Call("r", color, replacement))

MenuSave(proceed) ==
  LET r == IF proceed = "y" THEN SaveOn(disk, Session) ELSE [err |-> "ok", disk |-> disk]
  IN /\ AtPrompt
     /\ ret' = <<>>
     /\ printed' = 0
     /\ IF r.err = "ok" THEN Reenter(r.disk, Call("s", proceed, ""))
        ELSE Crash(root, r.err, Call("s", proceed, "")) /\ disk' = r.disk

MenuClose ==
  /\ AtPrompt
  /\ pc' = "closed"
  /\ lastOp' = Call("c", "", "")
  /\ lastResult' = "ok"
  /\ cmds' = Append(cmds, Call("c", "", ""))
  /\ ret' = <<>>
  /\ printed' = 0
  /\ UNCHANGED <<disk, is_open, path, doc_info, root, parent_map, zargs, orig>>

MenuOther ==
  /\ AtPrompt
  /\ ret' = <<>>
  /\ printed' = 0
  /\ Reenter(disk, Call("?", "", ""))

\* redact_menu entered: the redactor made and opened, waiting at the prompt
InitMenu ==
  /\ InitDisk(Archives(DocBytes(Blocks, 1)), {NoFile})
  /\ LET s == OpenOn(disk, FilePath, NewSession).s
     IN /\ is_open = s.is_open
        /\ path = s.path
        /\ doc_info = s.doc_info
        /\ root = s.root
        /\ parent_map = s.parent_map
  /\ lastOp = Call("redact_menu", FilePath, "")
  /\ lastResult = "ok"
  /\ ret = <<>>
  /\ printed = 0
  /\ pc = "menu"
  /\ zargs = None
  /\ orig = None
  /\ cmds = <<>>

NextMenu ==
  \/ MenuList
  \/ \E c \in Colors, t \in Replacements : MenuRedact(c, t)
  \/ \E a \in {"y", "n"} : MenuSave(a)
  \/ MenuClose
  \/ MenuOther

SpecMenu == InitMenu /\ [][NextMenu]_vars

\* ------------------------------------------------- vocabulary of the claims
\* the elements at or below e, read off the child lists
RECURSIVE Closure(_, _)
Closure(tree, S) ==
  LET T == S \cup UNION {Range(tree.kids[x]) : x \in S}
  IN IF T = S THEN S ELSE Closure(tree, T)

Under(tree, e) == Closure(tree, {e})

\* the element whose child list holds e; 0 for the root and detached elements
ParentOf(tree, e) ==
  IF \E p \in DOMAIN tree.kids : e \in Range(tree.kids[p])
  THEN CHOOSE p \in DOMAIN tree.kids : e \in Range(tree.kids[p])
  ELSE 0

\* the nearest element above e whose tag is in tags; 0 when there is none
RECURSIVE Nearest(_, _, _)
Nearest(tree, e, tags) ==
  LET p == ParentOf(tree, e)
  IN IF p = 0 THEN 0
     ELSE IF tree.tag[p] \in tags THEN p
     ELSE Nearest(tree, p, tags)

\* the elements above e, nearest first
RECURSIVE Above(_, _)
Above(tree, e) ==
  LET p == ParentOf(tree, e)
  IN IF p = 0 THEN {} ELSE {p} \cup Above(tree, p)

Enclosing(tree, e) == Nearest(tree, e, {"w:r", "w:p"})

\* the highlights of colour c that are in the tree
Marked(tree, c) ==
  {h \in Under(tree, 1) : tree.tag[h] = "w:highlight" /\ tree.val[h] = c}

PropsTag(tree, e) == IF tree.tag[e] = "w:r" THEN "w:rPr" ELSE "w:pPr"

\* container e carries no formatting override and only the replacement text
Redacted(tree, e, text) ==
  /\ \A k \in Range(tree.kids[e]) : tree.tag[k] # PropsTag(tree, e)
  /\ \A t \in Under(tree, e) : tree.tag[t] = "w:t" => tree.text[t] = text

Returned(op) == lastOp'.op = op /\ lastResult' = "ok"
Raised(op) == lastOp'.op = op /\ lastResult' # "ok"

\* C3: after redact(c, R) returns, every colour-c highlight that had an
\* enclosing run or paragraph has that container stripped of its w:rPr
\* (run) or w:pPr (paragraph) child, and every w:t below it reads R.
C3_RedactionCompleteness ==
  [][Returned("redact") =>
       \A h \in Marked(root, lastOp'.a) :
         Enclosing(root, h) # 0 => Redacted(root', Enclosing(root, h), lastOp'.b)]_vars

\* a paragraph was redacted through its paragraph mark, down to a nested w:t
C3_Witness ==
  /\ lastOp.op = "redact" /\ lastResult = "ok"
  /\ \E e \in Under(root, 1) :
       /\ root.tag[e] = "w:p"
       /\ Redacted(root, e, lastOp.b)
       /\ Range(iterTag(root, e, "w:pPr")) = {}
       /\ \E t \in Under(root, e) : root.tag[t] = "w:t" /\ ParentOf(root, t) # e

\* C4: after redact(c, R), a highlight of another colour d is where it was
\* and its run is untouched: same children, same text in its w:t leaves.
C4_NonInterference ==
  [][Returned("redact") =>
       \A d \in Colors \ {lastOp'.a} : \A h \in Marked(root, d) :
         /\ h \in Under(root', 1)
         /\ ParentOf(root', h) = ParentOf(root, h)
         /\ LET run == Nearest(root, h, {"w:r"})
            IN run # 0 =>
                 \A x \in Under(root, run) :
                   root'.kids[x] = root.kids[x] /\ root'.text[x] = root.text[x]]_vars

\* C5: a redact that raises leaves the tree as it was before the call.
C5_AllOrNothing ==
  [][Raised("redact") => root' = root]_vars

\* C6: when a colour-c highlight has no run or paragraph above it, the walk
\* up parent_map ends with None, redact prints one line for it, the elements
\* above it keep their children, and every other colour-c highlight, before
\* or after it, is redacted.
C6_OrphanNonFatal ==
  [][(lastOp'.op = "redact" /\ is_open /\ get_highlights(root, lastOp'.a).err = "ok") =>
       LET hls == Marked(root, lastOp'.a)
           orphans == {h \in hls : Enclosing(root, h) = 0}
       IN orphans # {} =>
            /\ \A h \in orphans :
                 /\ get_run_or_paragraph_for_highlight(root, parent_map, h) = 0
                 /\ ParentOf(root', h) = ParentOf(root, h)
                 /\ \A p \in Above(root, h) : root'.kids[p] = root.kids[p]
            /\ printed' = Cardinality(orphans)
            /\ \A h \in hls \ orphans :
                 Redacted(root', Enclosing(root, h), lastOp'.b)]_vars

\* C1: a save that returns leaves the archive at the session path with the
\* same entry names, every entry but word/document.xml and the comment as
\* they were, and word/document.xml once, holding the serialized tree under
\* the metadata it had.
C1_SaveFrame ==
  [][Returned("save") =>
       LET old == disk[path]
           new == disk'[path]
           docs == {j \in DOMAIN new.entries : new.entries[j].name = DOC}
       IN /\ IsZip(new)
          /\ Names(new) = Names(old)
          /\ new.comment = old.comment
          /\ \A i \in DOMAIN old.entries :
               old.entries[i].name # DOC =>
                 \E j \in DOMAIN new.entries : new.entries[j] = old.entries[i]
          /\ Cardinality(docs) = 1
          /\ \A j \in docs :
               new.entries[j] = Entry(DOC, getinfo(old, DOC).meta, tostring(root))]_vars

OpenThenSave == lastOp.op = "open" /\ lastResult = "ok" /\ Returned("save")

\* C2 as stated: open then save, nothing in between, leaves the archive
\* identical: entries in order, bytes, metadata, comment.
C2_RoundTripIdentity ==
  [][OpenThenSave => disk'[path] = disk[path]]_vars

NotDoc(es) == SelectSeq(es, LAMBDA e : e.name # DOC)

\* C2 as amended: the comment and the other entries, in their order, are
\* identical; word/document.xml keeps its metadata, becomes the last entry
\* and holds the serialization of the parsed tree, which parses to the same
\* tree and has no XML declaration; the archive is identical exactly when
\* the part was already last and already in that form.
C2_RoundTripAmended ==
  [][OpenThenSave =>
       LET old == disk[path]
           new == disk'[path]
           was == getinfo(old, DOC)
           now == new.entries[Len(new.entries)]
       IN /\ new.comment = old.comment
          /\ Len(new.entries) = Len(old.entries)
          /\ NotDoc(new.entries) = NotDoc(old.entries)
          /\ SubSeq(new.entries, 1, Len(new.entries) - 1) = NotDoc(old.entries)
          /\ now.name = DOC /\ now.meta = was.meta
          /\ ~now.data.decl
          /\ now.data.nodes = was.data.nodes
          /\ (new = old) <=> (old.entries[Len(old.entries)].name = DOC /\ ~was.data.decl)]_vars

\* a round trip moved the document part to the end and dropped the
\* declaration, with two other parts and the comment carried over
C2_Witness ==
  /\ lastOp.op = "save" /\ lastResult = "ok" /\ path = "a.docx"
  /\ LET z == disk["a.docx"]
     IN /\ Len(z.entries) = 3
        /\ z.entries[1] = OtherParts[1] /\ z.entries[2] = OtherParts[2]
        /\ z.entries[3].name = DOC /\ ~z.entries[3].data.decl
        /\ z.entries[3].meta = "deflated"
        /\ z.comment = "a comment"
        /\ z.entries[3].data = tostring(root)

\* C7: while no open has succeeded, get_all_colors, get_highlights, redact
\* and save each fail and change neither the session nor any file.
C7_PrecedingState ==
  [][(~is_open /\ lastOp'.op \in {"get_all_colors", "get_highlights", "redact", "save"})
       => (lastResult' # "ok" /\ UNCHANGED <<session, disk>>)]_vars

\* save was refused on a session whose only open had failed on a bad part
C7_Witness ==
  /\ ~is_open /\ path = "b.docx" /\ doc_info # None /\ root = None
  /\ lastOp.op = "save" /\ lastResult = "Exception"

\* C9: an open that fails on a session already open leaves path, doc_info,
\* root, parent_map and is_open as they were.
C9_FailedOpenKeepsSession ==
  [][(is_open /\ Raised("open")) => UNCHANGED session]_vars

\* C8 as stated: wherever the process stops, the archive path holds the
\* original archive or an archive with every other entry and the comment;
\* the target entry is missing only between the rename and the append.
HasOthers(f) ==
  /\ IsZip(f)
  /\ f.comment = orig.comment
  /\ NotDoc(f.entries) = NotDoc(orig.entries)

C8_CrashWindow ==
  pc # "idle" =>
    LET f == disk[zargs.zipname]
    IN /\ f = orig \/ HasOthers(f)
       /\ (IsZip(f) /\ DOC \notin Names(f)) => pc = "renamed"

\* C8 as amended: between the remove and the rename the archive path holds
\* nothing, and the temp file beside it holds every other entry and the
\* comment; at every other point the path holds the original, or every other
\* entry and the comment, without the target only between rename and append.
C8_CrashWindowAmended ==
  LET f == disk[zargs.zipname]
      others == Zip(NotDoc(orig.entries), orig.comment)
  IN /\ pc \in {"called", "tmp_made", "copied"} => f = orig
     /\ pc = "tmp_made" => disk[TMP] = EmptyFile
     /\ pc \in {"copied", "removed"} => disk[TMP] = others
     /\ pc = "removed" => f = NoFile
     /\ pc = "renamed" => f = others /\ disk[TMP] = NoFile
     /\ (pc = "idle" /\ lastOp.op = "save") =>
          /\ HasOthers(disk[zargs.zipname])
          /\ disk[zargs.zipname].entries[Len(orig.entries)]
               = Entry(DOC, zargs.zip_info.meta, zargs.data)
          /\ disk[TMP] = NoFile

\* the process stopped after the remove, before the rename
C8_Witness ==
  /\ pc = "removed" /\ lastResult = "stopped"
  /\ disk[zargs.zipname] = NoFile
  /\ Len(disk[TMP].entries) = 2

\* C10: in redact_menu, a confirmed save that follows a redact command of
\* colour c writes a document whose colour-c containers are redacted.
C10_RedactThenSave ==
  (pc = "menu" /\ lastOp = Call("s", "y", "")) =>
    \A i \in DOMAIN cmds :
      cmds[i].op = "r" =>
        LET saved == fromstring(getinfo(disk[FilePath], DOC).data)
        IN \A h \in Marked(saved, cmds[i].a) :
             Enclosing(saved, h) # 0 => Redacted(saved, Enclosing(saved, h), cmds[i].b)

====
